---- MODULE Spec2Model ----
(***************************************************************************)
(* MaiMaiBot: the per-user credential store, the dispatch facade           *)
(* callToolForUser and the auto-claim scheduler runAutoClaimSweep of       *)
(* src/src/index.js, as a state machine.                                   *)
(*                                                                         *)
(* Node runs one handler at a time: a step of the model is the code that   *)
(* runs between two suspension points (await of a network call).  The      *)
(* store, the time provider and the remote client live in storage.js,      *)
(* time.js and mcpClient.js; they are modelled from their interfaces.      *)
(* Users are numbered in the order Object.entries(allUsers()) yields them. *)
(*                                                                         *)
(* Left out: lastAutoClaimAt, which the scheduler writes beside            *)
(* lastAutoClaimDate and only /status reads; the text of messages; and     *)
(* the chunks of a long message (a notification is one chunk: the HTML     *)
(* sendMessage, then the plain-text one when the first throws).            *)
(***************************************************************************)
EXTENDS Integers, FiniteSets, Sequences, TLC

\* ---------------------------------------------------------------- bounds
NumUsers == 2
NumSweeps == 2
MaxDate == 2
CallCap == 2
MaxCmds == 2
NumCalls == 2
MaxInvokes == 3
MaxNow == 2
TtlTicks == 1

\* ------------------------------------------------------- program constants
AUTO_CLAIM_HOUR == 9
NaN == -1

UserIds == 1..NumUsers
Sweeps == 1..NumSweeps
Dates == 1..MaxDate
\* the local hours the clock passes through each day: one before the
\* threshold, one at it
Hours == {AUTO_CLAIM_HOUR - 1, AUTO_CLAIM_HOUR}

NoToken == ""
Tokens == {"t1"}

\* error.message of the failures a claim can meet
\* line 218: the message of the error thrown without a token
MissingCredential == "missing MCP token"
RemoteErrors == {"auth", "tool"}
SendError == "send"
StorageError == "storage"

\* lines 443 and 449: the success marker, and the failure prefix with
\* error.message
Success == <<"success", "">>
Failure(detail) == <<"failure", detail>>
NoStatus == <<"", "">>

\* ------------------------------------------------------------ the store
\* a stored record; a field the record does not hold reads as undefined
\* (falsy): "" for token, FALSE for the flag, 0 for the date
Absent ==
  [present |-> FALSE, token |-> NoToken, autoClaimEnabled |-> FALSE,
   lastAutoClaimDate |-> 0, lastAutoClaimStatus |-> NoStatus]

Records ==
  [present : {TRUE}, token : Tokens \cup {NoToken}, autoClaimEnabled : BOOLEAN,
   lastAutoClaimDate : 0..MaxDate,
   lastAutoClaimStatus : {NoStatus, Success}
        \cup {Failure(d) : d \in RemoteErrors \cup {MissingCredential, SendError, StorageError}}]

VARIABLES
  users,                \* storage: userId -> record, Absent when not stored
  autoClaimInProgress,  \* the in-flight set
  date, hour,           \* the wall clock in AUTO_CLAIM_TIMEZONE
  pc,                   \* per sweep execution: where it is suspended
  snap,                 \* per sweep execution: `users`, the result of allUsers()
  today,                \* per sweep execution: `today`
  cur,                  \* per sweep execution: `userId` of the loop
  error,                \* per sweep execution: error.message in the catch block
  manual,               \* per user: the /claim handler
  cmds,                 \* the number of store-changing commands handled so far
  storageFaulty,        \* whether upsertUser may throw (disk failure)
  sweepCalls,           \* history: remote claim calls sweeps started for the user's record on `date`
  runCalls,             \* history: callToolForUser calls of the running sweep, per user
  noteFailed,           \* history: a notification of the running sweep threw
  failedOn,             \* history: the date a sweep recorded a failure under, per user
  lastStart,            \* history: the sweep the last step started and the hour it read
  cache,                \* the TTLCache: a set of entries, one per key
  now,                  \* the clock the cache reads (Date.now()), in ticks
  call,                 \* per callToolForUser invocation suspended in client.callTool
  invokes,              \* the number of callToolForUser invocations of commands so far
  last                  \* history: what the last callToolForUser step did and returned

vars ==
  <<users, autoClaimInProgress, date, hour, pc, snap, today, cur, error, manual,
    cmds, storageFaulty, sweepCalls, runCalls, noteFailed, failedOn, lastStart,
    cache, now, call, invokes, last>>

\* the variables of the cache and of the commands that call through it
cacheVars == <<cache, now, call, invokes, last>>
\* the variables of the scheduler and of the store's commands
schedVars ==
  <<autoClaimInProgress, date, hour, pc, snap, today, cur, error, manual,
    cmds, storageFaulty, sweepCalls, runCalls, noteFailed, failedOn, lastStart>>

NoStart == [s |-> 0, hour |-> NaN]
NoSnap == [u \in UserIds |-> Absent]
\* allUsers(): a copy of the stored mapping (the store parses its file on
\* every read), kept with the fields the loop reads
allUsers(U) ==
  [u \in UserIds |-> [U[u] EXCEPT !.lastAutoClaimStatus = NoStatus]]
NoCalls == [u \in UserIds |-> 0]

Bump(n) == IF n < CallCap THEN n + 1 ELSE n

\* getUser(userId)
getUser(U, u) == U[u]

\* upsertUser(userId, fields): merge the fields into the record, creating it
upsertUser(U, u, fields) ==
  [U EXCEPT ![u] = fields @@ [present |-> TRUE] @@ U[u]]

\* deleteUser(userId)
deleteUser(U, u) == [U EXCEPT ![u] = Absent]

\* what an upsertUser call does: the new store, or a throw
\* (only when the storage is faulty)
UpsertOutcomes(U, u, fields) ==
  {[thrown |-> FALSE, users |-> upsertUser(U, u, fields)]}
    \cup (IF storageFaulty THEN {[thrown |-> TRUE, users |-> U]} ELSE {})

HasTokenNotChecked(rec) == TRUE
\* lines 216 and 208: `!user || !user.token` is false
HasToken(rec) == rec.present /\ rec.token # NoToken

\* ------------------------------------------------------------ the time
IsNaN(h) == h = NaN
\* JavaScript's <: false when an operand is NaN
JsLess(a, b) == ~IsNaN(a) /\ ~IsNaN(b) /\ a < b

GateClosedOffByOne(h) == IsNaN(h) \/ JsLess(h, AUTO_CLAIM_HOUR - 1)
\* line 415: the sweep returns at once
GateClosed(h) == IsNaN(h) \/ JsLess(h, AUTO_CLAIM_HOUR)

\* ------------------------------------------------------- the sweep's loop
SkipNoInFlightCheck(rec, u, t, P) ==
  \/ ~rec.autoClaimEnabled \/ rec.token = NoToken
  \/ rec.lastAutoClaimDate = t
SkipNoDateCheck(rec, u, t, P) ==
  \/ ~rec.autoClaimEnabled \/ rec.token = NoToken
  \/ u \in P
\* lines 420-428: the three `continue`s, on the snapshot's record
Skip(rec, u, t, P) ==
  \/ ~rec.autoClaimEnabled \/ rec.token = NoToken
  \/ rec.lastAutoClaimDate = t
  \/ u \in P

\* the first user at or after `from` the loop does not skip, 0 when none
NextEligible(sn, from, t, P) ==
  LET C == {u \in UserIds : u >= from /\ sn[u].present /\ ~Skip(sn[u], u, t, P)}
  IN IF C = {} THEN 0 ELSE CHOOSE u \in C : \A v \in C : u <= v

SuccessFields(t) ==
  [lastAutoClaimDate |-> t, lastAutoClaimStatus |-> Success]
FailureFieldsNoDate(t, msg) ==
  [lastAutoClaimStatus |-> Failure(msg)]
\* lines 446-450
FailureFields(t, msg) ==
  [lastAutoClaimDate |-> t, lastAutoClaimStatus |-> Failure(msg)]

FinallyLeak(P, u) == P
\* lines 460-462
Finally(P, u) == P \ {u}

SendErrorEscapes == FALSE
\* lines 452-459: the failure notification's throw is caught and logged
SendErrorCaught == TRUE

\* the sweep's result of one step: where it suspends next and what it did
Res(p, c, U, P, e, inv, rem, fd) ==
  [pc |-> p, cur |-> c, users |-> U, inflight |-> P, error |-> e,
   invoked |-> inv, remote |-> rem, failed |-> fd]

\* lines 445-459, entered with error.message = msg while processing u:
\* record the failure, then start the failure notification; a throw of
\* upsertUser leaves through `finally` and rejects the sweep
Catch(u, t, U, P, msg, inv, rem) ==
  {IF o.thrown
     THEN Res("idle", 0, U, Finally(P, u), "", inv, rem, 0)
     ELSE Res("notifyFail", u, o.users, P, msg, inv, rem, u)
   : o \in UpsertOutcomes(U, u, FailureFields(t, msg))}

\* lines 419-432 from the loop's position `from` to the next suspension:
\* skip, mark in flight, call callToolForUser (lines 215-236), which throws
\* at once without a token and otherwise suspends in client.callTool
LoopFrom(sn, from, t, U, P) ==
  LET u == NextEligible(sn, from, t, P) IN
  IF u = 0 THEN {Res("idle", 0, U, P, "", 0, 0, 0)}
  ELSE IF HasToken(getUser(U, u))
    THEN {Res("calling", u, U, P \cup {u}, "", u, u, 0)}
    ELSE Catch(u, t, U, P \cup {u}, MissingCredential, u, 0)

\* lines 460-463: `finally`, then the loop goes on
FinallyThenLoop(s, U, P) ==
  LoopFrom(snap[s], cur[s] + 1, today[s], U, Finally(P, cur[s]))

\* the variables of sweep s after a step with result r
Apply(s, r, sn, t) ==
  /\ pc' = [pc EXCEPT ![s] = r.pc]
  /\ cur' = [cur EXCEPT ![s] = r.cur]
  /\ error' = [error EXCEPT ![s] = r.error]
  /\ users' = r.users
  /\ autoClaimInProgress' = r.inflight
  /\ snap' = [snap EXCEPT ![s] = IF r.pc = "idle" THEN NoSnap ELSE sn]
  /\ today' = [today EXCEPT ![s] = IF r.pc = "idle" THEN 0 ELSE t]
  /\ sweepCalls' =
       [u \in UserIds |-> IF u = r.remote THEN Bump(sweepCalls[u]) ELSE sweepCalls[u]]
  /\ runCalls' =
       [runCalls EXCEPT ![s] =
          IF r.pc = "idle" THEN NoCalls
          ELSE [u \in UserIds |->
                  LET old == IF pc[s] = "idle" THEN 0 ELSE runCalls[s][u]
                  IN IF u = r.invoked THEN Bump(old) ELSE old]]
  /\ failedOn' =
       [u \in UserIds |-> IF u = r.failed THEN t ELSE failedOn[u]]

\* --------------------------------------------------- the dispatch facade
\* lines 19-24: the default allow-list
CACHEABLE_TOOLS == {"campaign-calender", "now-time-info"}
\* the tools of the /calendar, /time and /coupons commands
ToolNames == CACHEABLE_TOOLS \cup {"available-coupons"}

\* an argument object: its own properties as <<key, value>> pairs in
\* insertion order, the order JSON.stringify writes them in
SpecifiedDate == <<"specifiedDate", "2024-05-01">>
Extra == <<"extra", "1">>
\* a property whose value refers back to the object
Circular == <<"self", "[Circular]">>
ArgObjects ==
  {<<>>, <<SpecifiedDate>>, <<SpecifiedDate, Extra>>, <<Extra, SpecifiedDate>>,
   <<Circular>>}

\* the calls of the commands: /calendar with and without a date, /time and
\* /coupons with {}; and, of what callToolForUser accepts beyond them, objects
\* of two properties and objects JSON.stringify cannot write
Invocations ==
  ({"campaign-calender"} \X ArgObjects)
    \cup ({"now-time-info"} \X {<<>>})
    \cup ({"available-coupons"} \X {<<>>, <<Circular>>})

\* the mapping an argument object denotes: its properties, whatever the order
Mapping(args) == {args[i] : i \in DOMAIN args}

\* JSON.stringify throws a TypeError on a circular structure
CanStringify(args) == \A i \in DOMAIN args : args[i] # Circular

RECURSIVE Properties(_)
Properties(args) ==
  IF args = <<>> THEN ""
  ELSE "\"" \o args[1][1] \o "\":\"" \o args[1][2] \o "\""
       \o (IF Len(args) > 1 THEN "," ELSE "") \o Properties(Tail(args))

\* JSON.stringify(args)
Stringify(args) == "{" \o Properties(args) \o "}"

\* line 221
CacheKey(toolName, args) == toolName \o ":" \o Stringify(args)

UseCacheAlways(toolName) == TRUE
\* line 222
UseCache(toolName) == toolName \in CACHEABLE_TOOLS

\* a tool result: its text, and (history) the user whose token obtained it
TextResults == {"", "V"}
Undefined == [text |-> "undefined", by |-> 0]
ResultOf(text, u) == [text |-> text, by |-> u]

\* line 224, `if (cached)`: undefined and the empty string are falsy
Truthy(value) == value # Undefined /\ value.text # ""

\* TTLCache.get(key): the value of the key's entry while the entry has not
\* expired, else undefined; an expired entry may be purged by the read
Live(C, key, t) == {e \in C : e.key = key /\ t <= e.expiresAt}
get(C, key, t) ==
  IF Live(C, key, t) # {}
    THEN {[value |-> (CHOOSE e \in Live(C, key, t) : TRUE).value, cache |-> C]}
    ELSE {[value |-> Undefined, cache |-> C],
          [value |-> Undefined, cache |-> {e \in C : e.key # key}]}

\* TTLCache.set(key, value): replaces the key's entry, expiring a TTL from now
set(C, key, value, t) ==
  {e \in C : e.key # key}
    \cup {[key |-> key, value |-> value, expiresAt |-> t + TtlTicks]}

PopulateAnyway(ok) == TRUE
\* lines 236-239: cache.set runs only when client.callTool returned
Populate(ok) == ok

CallSlots == 1..NumCalls
NoCall == [user |-> 0, toolName |-> "", args |-> <<>>]
NoOp ==
  [op |-> "none", user |-> 0, toolName |-> "", args |-> <<>>,
   read |-> FALSE, wrote |-> FALSE, remote |-> FALSE,
   kind |-> "none", value |-> Undefined, error |-> ""]

InitCache ==
  /\ cache = {}
  /\ now = 0
  /\ call = [c \in CallSlots |-> NoCall]
  /\ invokes = 0
  /\ last = NoOp

\* what callToolForUser did in the step and what its caller got
Outcome(op, u, toolName, args, rd, wr, rem, kind, value, err) ==
  [op |-> op, user |-> u, toolName |-> toolName, args |-> args,
   read |-> rd, wrote |-> wr, remote |-> rem,
   kind |-> kind, value |-> value, error |-> err]

\* callToolForUser(userId, toolName, args) is called by a command handler and
\* runs to its return, its throw or its suspension in client.callTool
\* (lines 215-236); c is the free slot the suspended call is kept in
Invoke(c, u, toolName, args) ==
  /\ invokes < MaxInvokes
  /\ invokes' = invokes + 1
  /\ call[c] = NoCall
  /\ \A d \in CallSlots : d < c => call[d] # NoCall
  /\ IF ~HasToken(getUser(users, u))
       THEN \* lines 216-219
            /\ last' = Outcome("invoke", u, toolName, args, FALSE, FALSE, FALSE,
                               "error", Undefined, MissingCredential)
            /\ UNCHANGED <<cache, call>>
     ELSE IF ~CanStringify(args)
       THEN \* line 221: JSON.stringify throws, outside any try
            /\ last' = Outcome("invoke", u, toolName, args, FALSE, FALSE, FALSE,
                               "error", Undefined, "TypeError")
            /\ UNCHANGED <<cache, call>>
     ELSE \E g \in (IF UseCache(toolName)
                      THEN get(cache, CacheKey(toolName, args), now)
                      ELSE {[value |-> Undefined, cache |-> cache]}) :
            /\ cache' = g.cache
            /\ IF UseCache(toolName) /\ Truthy(g.value)
                 THEN \* lines 224-227
                      /\ last' = Outcome("invoke", u, toolName, args, TRUE, FALSE, FALSE,
                                         "result", g.value, "")
                      /\ UNCHANGED call
                 ELSE \* lines 230-236
                      /\ last' = Outcome("invoke", u, toolName, args, UseCache(toolName),
                                         FALSE, TRUE, "none", Undefined, "")
                      /\ call' = [call EXCEPT ![c] =
                                    [user |-> u, toolName |-> toolName, args |-> args]]
  /\ UNCHANGED <<users, now>>
  /\ UNCHANGED schedVars

\* client.callTool settles (lines 236-240) with a result or a throw
Return(c) ==
  /\ call[c] # NoCall
  /\ LET u == call[c].user
         toolName == call[c].toolName
         args == call[c].args
     IN \E text \in TextResults \cup RemoteErrors :
          LET ok == text \in TextResults
              wr == UseCache(toolName) /\ Populate(ok)
              value == ResultOf(text, u)
          IN /\ cache' = IF wr THEN set(cache, CacheKey(toolName, args), value, now)
                         ELSE cache
             /\ last' = IF ok
                          THEN Outcome("return", u, toolName, args, FALSE, wr, FALSE,
                                       "result", value, "")
                          ELSE Outcome("return", u, toolName, args, FALSE, wr, FALSE,
                                       "error", Undefined, text)
  /\ call' = [call EXCEPT ![c] = NoCall]
  /\ UNCHANGED <<users, now, invokes>>
  /\ UNCHANGED schedVars

\* time passes
Elapse ==
  /\ now < MaxNow
  /\ now' = now + 1
  /\ last' = NoOp
  /\ UNCHANGED <<users, cache, call, invokes>>
  /\ UNCHANGED schedVars

\* the commands that call through the cache, and time
NextCache ==
  \/ \E c \in CallSlots, u \in UserIds, i \in Invocations :
       Invoke(c, u, i[1], i[2])
  \/ \E c \in CallSlots : Return(c)
  \/ Elapse

\* ---------------------------------------------------------------- Init
InitRecords ==
  {Absent,
   [present |-> TRUE, token |-> "t1", autoClaimEnabled |-> TRUE,
    lastAutoClaimDate |-> 0, lastAutoClaimStatus |-> NoStatus]}

InitCommon ==
  /\ users \in [UserIds -> InitRecords]
  /\ autoClaimInProgress = {}
  /\ date = 1
  /\ hour \in Hours
  /\ pc = [s \in Sweeps |-> "idle"]
  /\ snap = [s \in Sweeps |-> NoSnap]
  /\ today = [s \in Sweeps |-> 0]
  /\ cur = [s \in Sweeps |-> 0]
  /\ error = [s \in Sweeps |-> ""]
  /\ manual = [u \in UserIds |-> "idle"]
  /\ cmds = 0
  /\ sweepCalls = NoCalls
  /\ runCalls = [s \in Sweeps |-> NoCalls]
  /\ noteFailed = [s \in Sweeps |-> FALSE]
  /\ failedOn = [u \in UserIds |-> 0]
  /\ lastStart = NoStart
  /\ InitCache

Init == InitCommon /\ storageFaulty = FALSE

\* ------------------------------------------------------------- the sweep
\* runAutoClaimSweep() is called (bot.launch().then, or a timer tick), reads
\* the local hour as h and runs to its first suspension; s is a free
\* execution slot
SweepStartH(s, h) ==
  /\ pc[s] = "idle"
  /\ lastStart' = [s |-> s, hour |-> h]
  /\ IF GateClosed(h)
       THEN UNCHANGED <<users, autoClaimInProgress, pc, snap, today, cur, error,
                        sweepCalls, runCalls, failedOn>>
       ELSE \E r \in LoopFrom(allUsers(users), 1, date, users, autoClaimInProgress) :
              Apply(s, r, allUsers(users), date)
  /\ noteFailed' = [noteFailed EXCEPT ![s] = FALSE]
  /\ UNCHANGED cacheVars
  /\ UNCHANGED <<date, hour, manual, cmds, storageFaulty>>

\* getLocalHour yields the hour of the clock, or NaN when it fails
SweepStart(s) == \E h \in {hour, NaN} : SweepStartH(s, h)

\* client.callTool settles (line 236)
RemoteReturn(s) ==
  /\ pc[s] = "calling"
  /\ \E outcome \in {"ok"} \cup RemoteErrors :
       IF outcome = "ok"
         THEN \* lines 433-439: the first sendMessage of the result is in flight
              Apply(s, Res("notifyOk", cur[s], users, autoClaimInProgress, "", 0, 0, 0),
                    snap[s], today[s])
         ELSE \E r \in Catch(cur[s], today[s], users, autoClaimInProgress, outcome, 0, 0) :
                Apply(s, r, snap[s], today[s])
  /\ lastStart' = NoStart
  /\ UNCHANGED cacheVars
  /\ UNCHANGED <<date, hour, manual, cmds, storageFaulty, noteFailed>>

\* lines 440-444 and `finally`; a throw of upsertUser enters the catch block
RecordSuccess(s) ==
  UNION {IF o.thrown
           THEN Catch(cur[s], today[s], users, autoClaimInProgress, StorageError, 0, 0)
           ELSE FinallyThenLoop(s, o.users, autoClaimInProgress)
         : o \in UpsertOutcomes(users, cur[s], SuccessFields(today[s]))}

\* bot.telegram.sendMessage settles (lines 85-100)
SendReturn(s) ==
  /\ pc[s] \in {"notifyOk", "notifyOkPlain", "notifyFail", "notifyFailPlain"}
  /\ \E ok \in BOOLEAN :
       /\ \E r \in
            CASE pc[s] = "notifyOk" ->
                   IF ok THEN RecordSuccess(s)
                   ELSE {Res("notifyOkPlain", cur[s], users, autoClaimInProgress, "", 0, 0, 0)}
              [] pc[s] = "notifyOkPlain" ->
                   IF ok THEN RecordSuccess(s)
                   ELSE Catch(cur[s], today[s], users, autoClaimInProgress, SendError, 0, 0)
              [] pc[s] = "notifyFail" ->
                   IF ok THEN FinallyThenLoop(s, users, autoClaimInProgress)
                   ELSE {Res("notifyFailPlain", cur[s], users, autoClaimInProgress,
                             error[s], 0, 0, 0)}
              [] pc[s] = "notifyFailPlain" ->
                   IF ok \/ SendErrorCaught
                     THEN FinallyThenLoop(s, users, autoClaimInProgress)
                     ELSE {Res("idle", 0, users, Finally(autoClaimInProgress, cur[s]),
                               "", 0, 0, 0)}
            : Apply(s, r, snap[s], today[s])
       /\ noteFailed' =
            [noteFailed EXCEPT ![s] =
               IF pc'[s] = "idle" THEN FALSE
               ELSE @ \/ (~ok /\ pc[s] \in {"notifyOkPlain", "notifyFailPlain"})]
  /\ lastStart' = NoStart
  /\ UNCHANGED cacheVars
  /\ UNCHANGED <<date, hour, manual, cmds, storageFaulty>>

\* ------------------------------------------------------------- commands
\* /token <token> (lines 276-286)
Token(u) ==
  /\ cmds < MaxCmds
  /\ cmds' = cmds + 1
  /\ \E tk \in Tokens : users' = upsertUser(users, u, [token |-> tk])
  /\ lastStart' = NoStart
  /\ UNCHANGED cacheVars
  /\ UNCHANGED <<autoClaimInProgress, date, hour, pc, snap, today, cur, error, manual,
                 storageFaulty, sweepCalls, runCalls, noteFailed, failedOn>>

\* /cleartoken (lines 288-297)
ClearToken(u) ==
  /\ cmds < MaxCmds
  /\ cmds' = cmds + 1
  /\ getUser(users, u).present
  /\ users' = deleteUser(users, u)
  /\ sweepCalls' = [sweepCalls EXCEPT ![u] = 0]
  /\ failedOn' = [failedOn EXCEPT ![u] = 0]
  /\ lastStart' = NoStart
  /\ UNCHANGED cacheVars
  /\ UNCHANGED <<autoClaimInProgress, date, hour, pc, snap, today, cur, error, manual,
                 storageFaulty, runCalls, noteFailed>>

\* /autoclaim on|off (lines 388-406)
Autoclaim(u) ==
  /\ cmds < MaxCmds
  /\ cmds' = cmds + 1
  /\ HasToken(getUser(users, u))
  /\ \E enabled \in BOOLEAN :
       users' = upsertUser(users, u, [autoClaimEnabled |-> enabled])
  /\ lastStart' = NoStart
  /\ UNCHANGED cacheVars
  /\ UNCHANGED <<autoClaimInProgress, date, hour, pc, snap, today, cur, error, manual,
                 storageFaulty, sweepCalls, runCalls, noteFailed, failedOn>>

\* /claim (lines 349-354): ensureToken, then callToolForUser suspends in
\* client.callTool
Claim(u) ==
  /\ manual[u] = "idle"
  /\ HasToken(getUser(users, u))
  /\ manual' = [manual EXCEPT ![u] = "calling"]
  /\ lastStart' = NoStart
  /\ UNCHANGED cacheVars
  /\ UNCHANGED <<users, autoClaimInProgress, date, hour, pc, snap, today, cur, error,
                 cmds, storageFaulty, sweepCalls, runCalls, noteFailed, failedOn>>

\* /claim (lines 354-359): the call settles and the handler replies
ClaimReturn(u) ==
  /\ manual[u] = "calling"
  /\ manual' = [manual EXCEPT ![u] = "idle"]
  /\ lastStart' = NoStart
  /\ UNCHANGED cacheVars
  /\ UNCHANGED <<users, autoClaimInProgress, date, hour, pc, snap, today, cur, error,
                 cmds, storageFaulty, sweepCalls, runCalls, noteFailed, failedOn>>

\* --------------------------------------------------------------- the clock
\* the wall clock moves to the next hour, or to the next day
Tick ==
  /\ \/ /\ hour = AUTO_CLAIM_HOUR - 1
        /\ hour' = AUTO_CLAIM_HOUR
        /\ UNCHANGED <<date, sweepCalls>>
     \/ /\ hour = AUTO_CLAIM_HOUR
        /\ date < MaxDate
        /\ hour' = AUTO_CLAIM_HOUR - 1
        /\ date' = date + 1
        /\ sweepCalls' = NoCalls
  /\ lastStart' = NoStart
  /\ UNCHANGED cacheVars
  /\ UNCHANGED <<users, autoClaimInProgress, pc, snap, today, cur, error, manual,
                 cmds, storageFaulty, runCalls, noteFailed, failedOn>>

Next ==
  \/ \E s \in Sweeps : SweepStart(s)
  \/ \E s \in Sweeps : RemoteReturn(s)
  \/ \E s \in Sweeps : SendReturn(s)
  \/ \E u \in UserIds : Token(u)
  \/ \E u \in UserIds : ClearToken(u)
  \/ \E u \in UserIds : Autoclaim(u)
  \/ Tick

Spec == Init /\ [][Next]_vars

\* the same program with the /claim command: the timer, the startup sweep
\* and manual claims
NextManual ==
  \/ \E s \in Sweeps : SweepStart(s)
  \/ \E s \in Sweeps : RemoteReturn(s)
  \/ \E s \in Sweeps : SendReturn(s)
  \/ \E u \in UserIds : Claim(u)
  \/ \E u \in UserIds : ClaimReturn(u)
  \/ Tick

SpecManual == Init /\ [][NextManual]_vars

\* the same program on a disk that may fail: upsertUser may throw
InitFault == InitCommon /\ storageFaulty = TRUE

\* of the store's commands /cleartoken is kept: it deletes a record while a
\* sweep is working on it
NextFault ==
  \/ \E s \in Sweeps : SweepStart(s)
  \/ \E s \in Sweeps : RemoteReturn(s)
  \/ \E s \in Sweeps : SendReturn(s)
  \/ \E u \in UserIds : ClearToken(u)
  \/ Tick

SpecFault == InitFault /\ [][NextFault]_vars

\* the commands that call through the cache, on their own
SpecCache == Init /\ [][NextCache]_vars

TypeOK ==
  /\ users \in [UserIds -> Records \cup {Absent}]
  /\ autoClaimInProgress \subseteq UserIds
  /\ date \in Dates /\ hour \in Hours
  /\ pc \in [Sweeps -> {"idle", "calling", "notifyOk", "notifyOkPlain",
                        "notifyFail", "notifyFailPlain"}]

\* ticks that never overlap: a sweep starts only when none is running
Running(s) == pc[s] # "idle"
AllIdle == \A s \in Sweeps : ~Running(s)

NextSeq ==
  \/ \E s \in Sweeps : AllIdle /\ SweepStart(s)
  \/ \E s \in Sweeps : RemoteReturn(s)
  \/ \E s \in Sweeps : SendReturn(s)
  \/ \E u \in UserIds : Token(u)
  \/ \E u \in UserIds : ClearToken(u)
  \/ \E u \in UserIds : Autoclaim(u)
  \/ Tick

SpecSeq == Init /\ [][NextSeq]_vars

\* the timer keeps ticking: an execution slot that stays free is used by a
\* sweep that reads the clock's hour (lines 470-474)
TimerTicks == \A s \in Sweeps : WF_vars(SweepStartH(s, hour))

\* the remote call and the notifications of user u settle
Settles(u) ==
  \A s \in Sweeps :
    /\ WF_vars(RemoteReturn(s) /\ cur[s] = u)
    /\ WF_vars(SendReturn(s) /\ cur[s] = u)

\* the scheduler alone: sweeps and the clock
NextLive ==
  \/ \E s \in Sweeps : SweepStart(s)
  \/ \E s \in Sweeps : RemoteReturn(s)
  \/ \E s \in Sweeps : SendReturn(s)
  \/ Tick

SpecLive == Init /\ [][NextLive]_vars /\ TimerTicks

\* ------------------------------------------------------------------ claims
NotifyingOk(s) == pc[s] \in {"notifyOk", "notifyOkPlain"}

\* C1: for every stored user and every local date, sweeps start at most one
\* 'auto-bind-coupons' call for that user on that date, however sweep
\* executions overlap.
C1_OneClaimPerUserPerDate == \A u \in UserIds : sweepCalls[u] <= 1

\* C2: for each user at most one sweep execution is between
\* autoClaimInProgress.add(userId) and the matching finally-delete.
C2_OneSweepPerUserInFlight ==
  \A u \in UserIds : Cardinality({s \in Sweeps : Running(s) /\ cur[s] = u}) <= 1

\* two executions run at once, on different users, and the second passed
\* over user 1 only because user 1 was in flight
C2_Witness ==
  \E s1, s2 \in Sweeps :
    /\ s1 # s2 /\ Running(s1) /\ Running(s2)
    /\ cur[s1] = 1 /\ cur[s2] = 2
    /\ today[s1] = today[s2]
    /\ snap[s2][1].present
    /\ ~SkipNoInFlightCheck(snap[s2][1], 1, today[s2], {})

\* the claim calls in flight for user u: the sweeps' and the /claim handler's
ClaimsInFlight(u) ==
  Cardinality({s \in Sweeps : pc[s] = "calling" /\ cur[s] = u})
    + (IF manual[u] = "calling" THEN 1 ELSE 0)

\* C3: for every user at most one invocation of 'auto-bind-coupons' is in
\* flight at any moment, counting the sweeps' and the /claim command's.
C3_OneClaimInFlight == \A u \in UserIds : ClaimsInFlight(u) <= 1

\* the hour the last step's sweep read keeps the gate shut
ReadBlockedHour(ls) == ls.s # 0 /\ (ls.hour = NaN \/ ls.hour < AUTO_CLAIM_HOUR)

\* C4: a sweep execution that reads a local hour below AUTO_CLAIM_HOUR, or a
\* not-a-number hour, makes no claim call, adds nobody to the in-flight set
\* and writes no user record.
C4_GateClosedNoOp ==
  [][ReadBlockedHour(lastStart')
       => UNCHANGED <<users, autoClaimInProgress, sweepCalls, runCalls, pc>>]_vars

\* a sweep has just read an hour below the threshold while a stored user was
\* eligible
C4_Witness ==
  /\ lastStart.s # 0 /\ lastStart.hour = AUTO_CLAIM_HOUR - 1
  /\ \E u \in UserIds :
       users[u].present /\ ~Skip(users[u], u, date, autoClaimInProgress)

\* the step in which sweep s enters the catch block (lines 445-451), for
\* the user cur'[s]
CatchStep(s) ==
  pc'[s] = "notifyFail" /\ (pc[s] # "notifyFail" \/ cur'[s] # cur[s])

\* the step in which sweep s calls callToolForUser for user u
InvokeStep(s, u) ==
  Running(s)' /\ runCalls'[s][u] > (IF Running(s) THEN runCalls[s][u] ELSE 0)

\* the record holds what the scheduler needs to claim for it
Claimable(rec) == rec.present /\ rec.autoClaimEnabled /\ rec.token # NoToken

\* the last step was a sweep that read an hour at or past the threshold,
\* found nobody to claim for and returned
IdleTickJustRan ==
  lastStart.s # 0 /\ lastStart.hour = AUTO_CLAIM_HOUR /\ AllIdle

C6_OncePerDay ==
  [][\A s \in Sweeps :
       /\ (Running(s) /\ ~Running(s)') =>
            \A u \in UserIds :
              (snap[s][u].present /\ ~Skip(snap[s][u], u, today[s], {}))
                => runCalls[s][u] = 1
       /\ CatchStep(s) => users'[cur'[s]].lastAutoClaimDate = today'[s]
       /\ (NotifyingOk(s) /\ (~Running(s)' \/ cur'[s] # cur[s]))
            => users'[cur[s]].lastAutoClaimDate = today[s]
       /\ \A u \in UserIds :
            /\ runCalls'[s][u] <= 1
            /\ (Running(s)' /\ snap'[s][u].lastAutoClaimDate = today'[s])
                 => runCalls'[s][u] = 0]_vars

\* a second tick of the date has just run and made no call for a user the
\* first tick claimed for successfully
C6_Witness ==
  /\ IdleTickJustRan
  /\ \E u \in UserIds :
       /\ Claimable(users[u])
       /\ users[u].lastAutoClaimDate = date
       /\ users[u].lastAutoClaimStatus = Success
       /\ sweepCalls[u] = 1

\* C7: whenever the claim call of a sweep succeeded, the processing of that
\* user ends with lastAutoClaimDate = today and the success marker recorded,
\* whether or not the notification could be delivered.
C7_SuccessIsRecorded ==
  [][\A s \in Sweeps :
       (NotifyingOk(s) /\ pc'[s] \notin {"notifyOk", "notifyOkPlain"})
         => /\ users'[cur[s]].lastAutoClaimDate = today[s]
            /\ users'[cur[s]].lastAutoClaimStatus = Success]_vars

\* C8: a user added to the in-flight set by a sweep leaves it on every exit
\* path of that user's processing: the set holds exactly the users some
\* running sweep is processing, and is empty when no sweep is running.
C8_InFlightIsReleased ==
  autoClaimInProgress = {cur[s] : s \in {x \in Sweeps : Running(x)}}

\* no sweep is running and the set is empty after a sweep was rejected by a
\* throw of upsertUser: a claim call was made today and left no record
C8_Witness ==
  /\ storageFaulty /\ date = 1
  /\ \A s \in Sweeps : ~Running(s)
  /\ autoClaimInProgress = {}
  /\ \E u \in UserIds :
       users[u].present /\ sweepCalls[u] >= 1 /\ users[u].lastAutoClaimDate # date

\* the users sweep s passes over in a step that leaves user cur[s]
PassedOver(s) ==
  (cur[s] + 1) .. (IF pc'[s] = "idle" THEN NumUsers ELSE cur'[s] - 1)

\* C9: a failed notification does not abort the sweep: when the processing
\* of a user ends, every later user is evaluated, and a sweep returns only
\* after the last one; the users it passes over are those the loop skips.
C9_SweepGoesOn ==
  [][\A s \in Sweeps :
       (Running(s) /\ (pc'[s] = "idle" \/ cur'[s] # cur[s]))
         => \A v \in PassedOver(s) :
              \/ ~snap[s][v].present
              \/ Skip(snap[s][v], v, today[s], autoClaimInProgress' \ {cur'[s]})]_vars

\* a sweep whose notification to user 1 threw is claiming for user 2
C9_Witness ==
  \E s \in Sweeps : noteFailed[s] /\ pc[s] = "calling" /\ cur[s] = 2

\* on date d the gate is open and user u is enabled, has a token and has no
\* claim recorded for d
Due(u, d) ==
  /\ date = d /\ hour >= AUTO_CLAIM_HOUR
  /\ Claimable(users[u]) /\ users[u].lastAutoClaimDate # d

\* the claim of date d is recorded for u, or u no longer is enabled with a
\* token, or the date has passed
Settled(u, d) ==
  \/ users[u].lastAutoClaimDate = d
  \/ ~Claimable(users[u])
  \/ date # d

\* C10: once the local hour has reached AUTO_CLAIM_HOUR, a user who stays
\* enabled with a token gets lastAutoClaimDate = today recorded while the
\* date lasts, provided the timer keeps ticking and that user's own remote
\* call and notifications settle, whatever the other users' calls do.
C10_EveryDueUserIsServed ==
  \A u \in UserIds : Settles(u) => \A d \in Dates : Due(u, d) ~> Settled(u, d)

\* user 2 is served by one sweep while another sweep still waits for the
\* remote call of user 1
C10_Witness ==
  \E s \in Sweeps :
    /\ pc[s] = "calling" /\ cur[s] = 1
    /\ users[2].lastAutoClaimDate = date /\ Claimable(users[2])
    /\ hour >= AUTO_CLAIM_HOUR /\ today[s] = date

\* ------------------------------------------------- claims about the cache
\* the step is a callToolForUser invocation of a command
InvokeCmd == invokes' = invokes + 1 /\ last'.op = "invoke"
\* the step is the settling of a command's client.callTool
ReturnCmd == last'.op = "return" /\ call' # call
\* the invocation of the step is made by a user with a token
WithToken ==
  LET user == getUser(users, last'.user) IN user.present /\ user.token # NoToken
\* the entries that have not expired and whose key is the key of (toolName, args)
LiveFor(toolName, args) == Live(cache, CacheKey(toolName, args), now)
\* the invocations an entry can have been stored by
StoredBy(e) ==
  {i \in Invocations : CanStringify(i[2]) /\ CacheKey(i[1], i[2]) = e.key}

\* C11: an invocation of a cacheable tool by a user with a token makes no
\* remote call and returns the stored result when an entry stored for the
\* same tool and arguments has not expired, whatever result the entry holds
\* (the empty text included); it makes a remote call when there is no such
\* entry or the entry has expired.
C11_CachedWithinTtl ==
  [][(InvokeCmd /\ WithToken /\ UseCache(last'.toolName) /\ CanStringify(last'.args))
       => /\ \A e \in LiveFor(last'.toolName, last'.args) :
               ~last'.remote /\ last'.kind = "result" /\ last'.value = e.value
          /\ LiveFor(last'.toolName, last'.args) = {} => last'.remote]_vars

\* C12: an invocation of a tool outside CACHEABLE_TOOLS by a user with a
\* token (arguments that can be serialized) always makes a remote call, and
\* neither it nor its settling reads or writes the cache.
C12_UncachedAlwaysLive ==
  [][/\ (InvokeCmd /\ WithToken /\ last'.toolName \notin CACHEABLE_TOOLS /\ CanStringify(last'.args))
          => last'.remote /\ ~last'.read /\ ~last'.wrote /\ cache' = cache
     /\ (ReturnCmd /\ last'.toolName \notin CACHEABLE_TOOLS)
          => ~last'.read /\ ~last'.wrote /\ cache' = cache]_vars

\* two remote calls of one user for one uncached tool with the same
\* arguments are in flight
C12_Witness ==
  /\ \A c \in CallSlots : call[c] # NoCall /\ call[c] = call[1]
  /\ call[1].toolName \notin CACHEABLE_TOOLS
  /\ last.op = "invoke" /\ last.remote /\ ~last.read

\* C13: an invocation for a user with no record or no token throws the
\* missing-credential error, makes no remote call, does not read the cache
\* and leaves it unchanged, even when a live entry exists for its key.
C13_NoCredentialNoCall ==
  [][(InvokeCmd /\ ~WithToken)
       => /\ last'.kind = "error" /\ last'.error = MissingCredential
          /\ ~last'.remote /\ ~last'.read /\ ~last'.wrote
          /\ cache' = cache /\ call' = call]_vars

\* a user without a record was refused while the cache held a live, non-empty
\* result for the same tool and arguments
C13_Witness ==
  /\ last.op = "invoke" /\ last.error = MissingCredential
  /\ ~getUser(users, last.user).present
  /\ \E e \in LiveFor(last.toolName, last.args) : Truthy(e.value)

C16_FailureIsNeverCached ==
  [][/\ (InvokeCmd \/ ReturnCmd)
          => /\ last'.wrote
                  => /\ last'.op = "return" /\ last'.kind = "result"
                     /\ UseCache(last'.toolName)
             /\ last'.kind = "error" => cache' \subseteq cache
             /\ ~last'.wrote => cache' \subseteq cache
     /\ \A e \in cache' : e.value.text \in TextResults]_vars

\* the remote call of a cacheable tool threw and the cache holds nothing for
\* its key: the next invocation will call the remote service again
C16_Witness ==
  /\ last.op = "return" /\ last.kind = "error" /\ last.error \in RemoteErrors
  /\ UseCache(last.toolName)
  /\ LiveFor(last.toolName, last.args) = {}

\* C17: every result callToolForUser returns to a user was obtained by a
\* remote call made with that user's token.
C17_ResultsAreTheUsersOwn ==
  last.kind = "result" => last.value.by = last.user

\* ---------------------------------- claims about commands during a sweep
\* C18: whenever a sweep starts the remote claim call of a user, the stored
\* record of the user has autoClaimEnabled = true at that moment.
C18_DisabledUserIsNotClaimedFor ==
  [][\A s \in Sweeps, u \in UserIds :
       (InvokeStep(s, u) /\ pc'[s] = "calling" /\ cur'[s] = u)
         => getUser(users, u).autoClaimEnabled]_vars

\* C19: a record that does not exist comes to exist only by /token, which
\* stores a token in it: the scheduler never creates a record.
C19_OnlyTokenCreatesARecord ==
  [][\A u \in UserIds :
       (~getUser(users, u).present /\ getUser(users', u).present)
         => cmds' = cmds + 1 /\ HasToken(getUser(users', u))]_vars

====
